---- MODULE Spec2Model ----
(***************************************************************************)
(* Agent-to-agent messaging servers of the repository.                     *)
(*                                                                         *)
(*   direct variant  src/unnamed/part_000  (agents-mcp-server: presence is *)
(*                   read from /tmp/claude_agent_*.json tracking files,    *)
(*                   delivery is one `snd --pane` child process per        *)
(*                   target)                                               *)
(*   bus variant     src/src/index.ts      (nats-mcp-server: every agent   *)
(*                   operation is one `nats publish` child process, every  *)
(*                   subscription one `nats subscribe` child process      *)
(*                   under a timer)                                        *)
(*                                                                         *)
(* A JavaScript string is modelled as a sequence of tokens (TLA+ strings); *)
(* the empty sequence is the empty string, and, as the code only tests the *)
(* truthiness of the fields it reads from a tracking file, also stands for *)
(* a missing (undefined) field.  A template literal is the concatenation   *)
(* of its pieces.  A multi-line text is the sequence of its lines.         *)
(***************************************************************************)
EXTENDS Integers, Sequences, FiniteSets, TLC

VARIABLES
    variant,    \* which server program is running: "direct" or "bus"
    files,      \* /tmp: tracking-file slot -> <<>> (no file) or <<[data, mtimeMs]>>
    now,        \* Date.now()
    fsOps,      \* number of file-system changes made by the environment so far
    pc,         \* the CallTool handler: "idle", "await" (a child process runs),
                \* "done" (the result is computed and about to be returned)
    req,        \* req.params of the current call: [name, arguments]
    agents,     \* agentBroadcast / agentDM / agentDiscover: const agents
    targets,    \* agentBroadcast: const targets; agentDM: <<target>>
    results,    \* agentBroadcast: const results
    procs,      \* child processes spawned by the current call, in spawn order
    agentId,    \* agentRegister: const agentId
    response,   \* the handler's return value: [isError, text]
    subs,       \* subscribe: the promise of each subscription of the current call,
                \* subs[i] beside its child process procs[i]:
                \* [stdout, n, timer, delay, outcome]
    elapsed,    \* milliseconds since the current call armed its timers
    prev        \* history: <<>>, or <<[op, id, name]>> when the call that returned last
                \* was a register that answered id or a deregister of id

vars == <<variant, files, now, fsOps, pc, req, agents, targets, results, procs,
          agentId, response, subs, elapsed, prev>>

----------------------------------------------------------------------------
(* Bounds of the model *)

\* file-system changes (a file written or removed) the environment makes
MaxFsOps == 1
\* clock ticks of one millisecond after the start time
MaxTicks == 1
\* "data" events (chunks written to stdout) of one subscriber process
MaxChunks == 1

----------------------------------------------------------------------------
(* Strings *)

Str(s) == <<s>>

Digits == <<"0", "1", "2", "3", "4", "5", "6", "7", "8", "9">>

\* String(n), `${n}` for a non-negative integer
RECURSIVE NumStr(_)
NumStr(n) ==
    IF n < 10 THEN <<Digits[n + 1]>>
    ELSE NumStr(n \div 10) \o <<Digits[(n % 10) + 1]>>

\* s.split("-")[0]
RECURSIVE SplitDashFirst(_)
SplitDashFirst(s) ==
    IF s = <<>> \/ Head(s) = "-" THEN <<>>
    ELSE <<Head(s)>> \o SplitDashFirst(Tail(s))

\* a JavaScript value used as a condition
Truthy(s) == s # <<>>

\* a || b on strings
OrElse(a, b) == IF Truthy(a) THEN a ELSE b

\* n || d on numbers
OrDefault(n, d) == IF n # 0 THEN n ELSE d

Whitespace == {"\n", " "}

RECURSIVE TrimStart(_)
TrimStart(s) ==
    IF s # <<>> /\ Head(s) \in Whitespace THEN TrimStart(Tail(s)) ELSE s

RECURSIVE TrimEnd(_)
TrimEnd(s) ==
    IF s # <<>> /\ s[Len(s)] \in Whitespace THEN TrimEnd(SubSeq(s, 1, Len(s) - 1)) ELSE s

\* s.trim()
Trim(s) == TrimEnd(TrimStart(s))

----------------------------------------------------------------------------
(* Inputs *)

HexDigits ==
    <<"0", "1", "2", "3", "4", "5", "6", "7", "8", "9", "a", "b", "c", "d", "e", "f">>

\* (a byte below 16 written as one digit)
ByteHexMutNoPad(b) ==
    IF b < 16 THEN <<HexDigits[b + 1]>>
    ELSE <<HexDigits[(b \div 16) + 1], HexDigits[(b % 16) + 1]>>

\* one byte of Buffer.toString("hex"): two lowercase digits
ByteHex(b) == <<HexDigits[(b \div 16) + 1], HexDigits[(b % 16) + 1]>>

\* Buffer.toString("hex"), a character per element
RECURSIVE ToHex(_)
ToHex(bytes) == IF bytes = <<>> THEN <<>> ELSE ByteHex(Head(bytes)) \o ToHex(Tail(bytes))

\* randomBytes(4): the buffers drawn in the model, one with a byte below 16
RandomBytes == {<<170, 170, 17, 17>>, <<11, 187, 34, 34>>}

\* randomBytes(4).toString("hex")
HexSuffixes == {ToHex(bytes) : bytes \in RandomBytes}

\* a name that itself contains "-"
ReviewerName == <<"code", "-", "reviewer">>

Names == {Str("bobby"), ReviewerName}

\* generateAgentId: `${name}-${suffix}`
generateAgentId(name, suffix) == name \o <<"-">> \o suffix

\* bobby-aaaa1111, alice-bbbb2222, bobby-dddd4444, ghost-99999999,
\* code-reviewer-aaaa1111
BobbyId == generateAgentId(Str("bobby"), ToHex(<<170, 170, 17, 17>>))
AliceId == generateAgentId(Str("alice"), ToHex(<<187, 187, 34, 34>>))
Bobby2Id == generateAgentId(Str("bobby"), ToHex(<<221, 221, 68, 68>>))
GhostId == generateAgentId(Str("ghost"), ToHex(<<153, 153, 153, 153>>))
ReviewerId == generateAgentId(ReviewerName, ToHex(<<170, 170, 17, 17>>))

Messages == {Str("hello")}

\* a JSON number given as the value of a field: the tagged text of the number
NotAString == <<"<number>", "42">>

\* the content of a tracking file: valid = readable and parseable JSON; group is
\* the agent's group, a key the file may carry
FileData(valid, id, name, session, window, pane, group) ==
    [valid |-> valid, agent_id |-> id, agent_name |-> name,
     tmux_session |-> session, tmux_window |-> window, tmux_pane |-> pane,
     group |-> group]

BobbyFile ==
    FileData(TRUE, BobbyId, Str("bobby"), Str("main"), Str("1"), Str("0"), Str("default"))
AliceFile ==
    FileData(TRUE, AliceId, Str("alice"), Str("main"), Str("1"), Str("1"), Str("research"))
AliceNoPaneFile ==
    FileData(TRUE, AliceId, Str("alice"), Str("main"), Str("1"), <<>>, Str("research"))
Bobby2File ==
    FileData(TRUE, Bobby2Id, Str("bobby"), Str("work"), Str("2"), Str("1"), Str("default"))
BrokenFile == FileData(FALSE, <<>>, <<>>, <<>>, <<>>, <<>>, <<>>)

\* the tracking files /tmp/claude_agent_*.json, in directory order
Slots == 1 .. 3

\* what each tracking file may hold; the first entry of the directory may be a
\* file that cannot be parsed, so that well-formed files follow a malformed one
SlotData(slot) ==
    CASE slot = 1 -> {BobbyFile, BrokenFile}
      [] slot = 2 -> {AliceFile, AliceNoPaneFile}
      [] OTHER -> {Bobby2File}

----------------------------------------------------------------------------
(* Presence: getActiveAgents *)

staleThreshold == 5 * 60 * 1000

StartTime == staleThreshold + 1

\* modification times of the files present at start: of age threshold (one tick
\* from stale) and of age 0
InitMTimes == {StartTime - staleThreshold, StartTime}

NoFile == <<>>

File(data, mtime) == <<[data |-> data, mtimeMs |-> mtime]>>

FileStates(slot) ==
    {NoFile} \cup {File(d, m) : d \in SlotData(slot), m \in InitMTimes}

\* const isStale = fileAge > staleThreshold
IsStaleMutAtThreshold(mtime, t) == (t - mtime) >= staleThreshold

IsStale(mtime, t) == (t - mtime) > staleThreshold

PaneOfMutAlways(data) ==
    data.tmux_session \o <<":">> \o data.tmux_window \o <<".">> \o data.tmux_pane

\* `${session}:${window}.${pane}` when all three are set, else ""
PaneOf(data) ==
    IF Truthy(data.tmux_session) /\ Truthy(data.tmux_window) /\ Truthy(data.tmux_pane)
    THEN data.tmux_session \o <<":">> \o data.tmux_window \o <<".">> \o data.tmux_pane
    ELSE <<>>

\* the AgentInfo pushed for one file
AgentInfo(f, t) ==
    [id |-> OrElse(f.data.agent_id, Str("unknown")),
     name |-> OrElse(f.data.agent_name, Str("unknown")),
     tmux_pane |-> PaneOf(f.data),
     is_stale |-> IsStale(f.mtimeMs, t)]

\* the loop body of getActiveAgents for one directory entry: the AgentInfo it
\* pushes, as a sequence of length 0 or 1
AgentOfSlot(fs, slot, includeStale, t) ==
    IF fs[slot] = NoFile THEN <<>>
    ELSE LET f == fs[slot][1] IN
         IF ~f.data.valid THEN <<>>                                 \* JSON.parse throws
         ELSE IF ~includeStale /\ IsStale(f.mtimeMs, t) THEN <<>>   \* continue
         ELSE <<AgentInfo(f, t)>>

\* as if a file that cannot be parsed ended the listing (the error reaching the
\* outer catch)
RECURSIVE AgentsFromMutAbort(_, _, _, _)
AgentsFromMutAbort(fs, slot, includeStale, t) ==
    IF slot \notin Slots THEN <<>>
    ELSE IF fs[slot] # NoFile /\ ~fs[slot][1].data.valid THEN <<>>
    ELSE AgentOfSlot(fs, slot, includeStale, t)
            \o AgentsFromMutAbort(fs, slot + 1, includeStale, t)

RECURSIVE AgentsFrom(_, _, _, _)
AgentsFrom(fs, slot, includeStale, t) ==
    IF slot \notin Slots THEN <<>>
    ELSE AgentOfSlot(fs, slot, includeStale, t) \o AgentsFrom(fs, slot + 1, includeStale, t)

getActiveAgents(fs, includeStale, t) == AgentsFrom(fs, 1, includeStale, t)

----------------------------------------------------------------------------
(* Tool requests *)

DirectTools ==
    {"agent_register", "agent_deregister", "agent_broadcast", "agent_dm", "agent_discover"}

SenderIds == {BobbyId, GhostId, ReviewerId}

\* `to` of a direct message: full ids, short names, an id nobody has
Refs == {BobbyId, AliceId, Str("bobby"), GhostId}

Request(name, arguments) == [name |-> name, arguments |-> arguments]

DirectRequests ==
    {Request("agent_register", [name |-> n, description |-> Str("d")]) : n \in Names}
    \cup {Request("agent_deregister", [agent_id |-> i]) : i \in {BobbyId, GhostId}}
    \cup {Request("agent_broadcast", [agent_id |-> s, message |-> m]) :
            s \in SenderIds, m \in Messages}
    \* a key the schema does not declare, which z.object strips
    \cup {Request("agent_broadcast",
                  [agent_id |-> BobbyId, message |-> m, group |-> Str("default")]) :
            m \in Messages}
    \cup {Request("agent_dm", [agent_id |-> AliceId, to |-> t, message |-> m]) :
            t \in Refs, m \in Messages}
    \cup {Request("agent_dm", [agent_id |-> s, to |-> AliceId, message |-> m]) :
            s \in {BobbyId, ReviewerId}, m \in Messages}
    \cup {Request("agent_discover", [include_stale |-> b]) : b \in BOOLEAN}
    \cup {Request("agent_discover", <<>>)}
    \* arguments that fail validation, and a tool this server does not have
    \cup {Request("agent_dm", [agent_id |-> AliceId])}
    \cup {Request("agent_broadcast", [agent_id |-> BobbyId, message |-> NotAString])}
    \cup {Request("agent_broadcast",
                  [agent_id |-> BobbyId, message |-> m, priority |-> Str("urgent")]) :
            m \in Messages}
    \cup {Request("agent_groups", <<>>)}

\* the fields a schema requires
Required(name) ==
    CASE name = "agent_register" -> {"name", "description"}
      [] name = "agent_deregister" -> {"agent_id"}
      [] name = "agent_broadcast" -> {"agent_id", "message"}
      [] name = "agent_dm" -> {"agent_id", "to", "message"}
      [] OTHER -> {}

\* z.string() accepts the value
IsString(v) == v = <<>> \/ Head(v) # "<number>"

\* the fields the schemas declare as z.string()
StringFields == {"name", "description", "agent_id", "message", "to", "subject", "status"}

\* z.enum(["low", "normal", "high"])
Priorities == {Str("low"), Str("normal"), Str("high")}

WellTypedMutAny(r) == TRUE

\* every field that is given has the type its schema declares
WellTyped(r) ==
    /\ \A f \in StringFields \cap DOMAIN r.arguments : IsString(r.arguments[f])
    /\ (r.name \in {"agent_broadcast", "nats_agent_broadcast"}
            /\ "priority" \in DOMAIN r.arguments) => r.arguments.priority \in Priorities

\* the message of the ZodError, given the fields the schema requires
ZodIssue(r, required) ==
    IF ~(required \subseteq DOMAIN r.arguments) THEN <<"Required">>
    ELSE IF \E f \in StringFields \cap DOMAIN r.arguments : ~IsString(r.arguments[f])
    THEN <<"Expected string, received number">>
    ELSE <<"Invalid enum value. Expected 'low' | 'normal' | 'high'">>

\* Schema.parse(args) succeeds
Parses(r) == Required(r.name) \subseteq DOMAIN r.arguments /\ WellTyped(r)

\* an optional field with its default
Arg(r, field, default) ==
    IF field \in DOMAIN r.arguments THEN r.arguments[field] ELSE default

----------------------------------------------------------------------------
(* Responses *)

\* { content: [{ type: "text", text: result }] }
Result(text) == [isError |-> FALSE, text |-> text]

ErrorResultMutBare(msg) == [isError |-> TRUE, text |-> <<msg>>]

\* { content: [{ type: "text", text: `Error: ${msg}` }], isError: true }
ErrorResult(msg) == [isError |-> TRUE, text |-> <<<<"Error: ">> \o msg>>]

NoResponse == [isError |-> FALSE, text |-> <<>>]

RegisteredText(id) ==
    <<<<"{\"agent_id\":\"">> \o id
        \o <<"\",\"message\":\"Registered. Use this agent_id for all subsequent calls.\"}">>>>

DeregisteredText == <<Str("Deregistered")>>

NoTargetsText == <<Str("No other agents to broadcast to")>>

NotFoundText(to) == <<<<"Agent ">> \o to \o <<" not found">>>>

NoPaneText(to) == <<<<"Agent ">> \o to \o <<" has no tmux pane">>>>

NoAgentsText == <<Str("No agents currently registered.")>>

\* `- ${a.name} (${a.id}): ${a.is_stale ? "stale" : "active"} | pane: ${a.tmux_pane || "unknown"}`
DiscoverLine(a) ==
    <<"- ">> \o a.name \o <<" (">> \o a.id \o <<"): ">>
        \o (IF a.is_stale THEN Str("stale") ELSE Str("active"))
        \o <<" | pane: ">> \o OrElse(a.tmux_pane, Str("unknown"))

RECURSIVE MapLines(_)
MapLines(as) ==
    IF as = <<>> THEN <<>> ELSE <<DiscoverLine(Head(as))>> \o MapLines(Tail(as))

\* `Active agents (${agents.length}):\n${lines.join("\n")}`
DiscoverText(as) ==
    IF Len(as) = 0 THEN NoAgentsText
    ELSE <<<<"Active agents (">> \o NumStr(Len(as)) \o <<"):">>>> \o MapLines(as)

\* `Broadcast sent to ${targets.length} agent(s):\n${results.join("\n")}`
BroadcastText(ts, rs) ==
    <<<<"Broadcast sent to ">> \o NumStr(Len(ts)) \o <<" agent(s):">>>> \o rs

\* `${err}` of the Error runSnd rejects with
SndFailure(status) ==
    IF status = "error" THEN <<"Error: ", "spawn snd ENOENT">>
    ELSE <<"Error: ", "snd failed with code ", "1">>

\* results.push lines: the source's check mark (U+2713) and cross (U+2717)
\* prefixes are written "ok " and "failed ", strings being ASCII here
OkLine(target) == <<"ok ">> \o target.name

FailLine(target, status) == <<"failed ">> \o target.name \o <<": ">> \o SndFailure(status)

----------------------------------------------------------------------------
(* Child processes *)

\* spawn(SND_PATH, ["--pane", pane, message])
SndProc(pane, message) ==
    [cmd |-> "snd", argv |-> <<Str("--pane"), pane, message>>, status |-> "running"]

SettleMutNone(ps, status) == ps

\* the last process spawned has ended with the status
Settle(ps, status) == [ps EXCEPT ![Len(ps)].status = status]

----------------------------------------------------------------------------
(* Direct variant: the tools *)

IsTargetMutSender(a, senderId) == Truthy(a.tmux_pane)

\* agentBroadcast: a => a.id !== args.agent_id && a.tmux_pane
IsTarget(a, senderId) == a.id # senderId /\ Truthy(a.tmux_pane)

FilterMutAll(as, senderId) == as

RECURSIVE Filter(_, _)
Filter(as, senderId) ==
    IF as = <<>> THEN <<>>
    ELSE (IF IsTarget(Head(as), senderId) THEN <<Head(as)>> ELSE <<>>)
            \o Filter(Tail(as), senderId)

MatchesRefMutAny(a, to) == TRUE

\* agentDM: a => a.id === args.to
MatchesRef(a, to) == a.id = to

\* agents.find(...): the first match, as a sequence of length 0 or 1
RECURSIVE Find(_, _)
Find(as, to) ==
    IF as = <<>> THEN <<>>
    ELSE IF MatchesRef(Head(as), to) THEN <<Head(as)>>
    ELSE Find(Tail(as), to)

\* `[${senderName}] ${args.message}`
BroadcastMsg(senderId, message) ==
    <<"[">> \o SplitDashFirst(senderId) \o <<"] ">> \o message

\* `[DM from ${senderName}] ${args.message}`
DMMsg(senderId, message) ==
    <<"[DM from ">> \o SplitDashFirst(senderId) \o <<"] ">> \o message

Return(r) ==
    /\ pc' = "done"
    /\ response' = r

\* JSON.parse(text).agent_id of a registration response
AgentIdOf(text) == SubSeq(text[1], 2, Len(text[1]) - 1)

\* what the history keeps of a call that has returned
PrevOf(r, resp) ==
    IF resp.isError THEN <<>>
    ELSE IF r.name \in {"agent_register", "nats_agent_register"}
    THEN <<[op |-> "register", id |-> AgentIdOf(resp.text), name |-> r.arguments.name]>>
    ELSE IF r.name \in {"agent_deregister", "nats_agent_deregister"}
    THEN <<[op |-> "deregister", id |-> r.arguments.agent_id, name |-> <<>>]>>
    ELSE <<>>

Begin(r) ==
    /\ pc = "idle"
    /\ req' = r
    /\ elapsed' = 0
    /\ UNCHANGED <<variant, files, now, fsOps, prev>>

\* a call of the direct server
BeginDirect(r) ==
    /\ variant = "direct"
    /\ Begin(r)
    /\ agentId' = <<>>
    /\ subs' = <<>>

\* the handler's default case and the schema's parse failure
Reject(r) ==
    /\ BeginDirect(r)
    /\ \/ r.name \notin DirectTools
       \/ ~Parses(r)
    /\ Return(ErrorResult(IF r.name \notin DirectTools
                          THEN <<"Unknown tool: ", r.name>>
                          ELSE ZodIssue(r, Required(r.name))))
    /\ agents' = <<>> /\ targets' = <<>> /\ results' = <<>> /\ procs' = <<>>

agentRegister(r) ==
    /\ BeginDirect(r)
    /\ r.name = "agent_register" /\ Parses(r)
    /\ \E suffix \in HexSuffixes :
         Return(Result(RegisteredText(generateAgentId(r.arguments.name, suffix))))
    /\ agents' = <<>> /\ targets' = <<>> /\ results' = <<>> /\ procs' = <<>>

agentDeregister(r) ==
    /\ BeginDirect(r)
    /\ r.name = "agent_deregister" /\ Parses(r)
    /\ Return(Result(DeregisteredText))
    /\ agents' = <<>> /\ targets' = <<>> /\ results' = <<>> /\ procs' = <<>>

agentDiscover(r) ==
    /\ BeginDirect(r)
    /\ r.name = "agent_discover" /\ Parses(r)
    /\ LET as == getActiveAgents(files, Arg(r, "include_stale", FALSE), now) IN
         /\ agents' = as
         /\ Return(Result(DiscoverText(as)))
    /\ targets' = <<>> /\ results' = <<>> /\ procs' = <<>>

\* agentDM up to its await
agentDM(r) ==
    /\ BeginDirect(r)
    /\ r.name = "agent_dm" /\ Parses(r)
    /\ LET as == getActiveAgents(files, FALSE, now)
           target == Find(as, r.arguments.to) IN
         /\ agents' = as
         /\ targets' = target
         /\ IF target = <<>>
            THEN Return(Result(NotFoundText(r.arguments.to))) /\ procs' = <<>>
            ELSE IF ~Truthy(target[1].tmux_pane)
            THEN Return(Result(NoPaneText(r.arguments.to))) /\ procs' = <<>>
            ELSE /\ procs' = <<SndProc(target[1].tmux_pane,
                                       DMMsg(r.arguments.agent_id, r.arguments.message))>>
                 /\ pc' = "await"
                 /\ response' = NoResponse
    /\ results' = <<>>

\* agentBroadcast up to its first await
agentBroadcast(r) ==
    /\ BeginDirect(r)
    /\ r.name = "agent_broadcast" /\ Parses(r)
    /\ LET as == getActiveAgents(files, FALSE, now)
           ts == Filter(as, r.arguments.agent_id) IN
         /\ agents' = as
         /\ targets' = ts
         /\ IF Len(ts) = 0
            THEN Return(Result(NoTargetsText)) /\ procs' = <<>>
            ELSE /\ procs' = <<SndProc(ts[1].tmux_pane,
                                       BroadcastMsg(r.arguments.agent_id, r.arguments.message))>>
                 /\ pc' = "await"
                 /\ response' = NoResponse
    /\ results' = <<>>

\* (a failed delivery is thrown to the handler)
AfterDMMutThrow(status) ==
    /\ procs' = Settle(procs, status)
    /\ Return(IF status = "exit0"
              THEN Result(<<<<"DM sent to ">> \o targets[1].name>>)
              ELSE ErrorResult(Tail(SndFailure(status))))
    /\ UNCHANGED results

\* the code after `await runSnd(...)` in agentDM
AfterDM(status) ==
    /\ procs' = Settle(procs, status)
    /\ Return(Result(IF status = "exit0"
                     THEN <<<<"DM sent to ">> \o targets[1].name>>
                     ELSE <<<<"Failed to send DM: ">> \o SndFailure(status)>>))
    /\ UNCHANGED results

\* (a failed delivery ends the loop)
AfterBroadcastMutAbort(status) ==
    LET k == Len(procs)
        rs == Append(results, IF status = "exit0" THEN OkLine(targets[k])
                              ELSE FailLine(targets[k], status)) IN
    /\ results' = rs
    /\ IF k < Len(targets) /\ status = "exit0"
       THEN /\ procs' = Append(Settle(procs, status),
                               SndProc(targets[k + 1].tmux_pane,
                                       BroadcastMsg(req.arguments.agent_id,
                                                    req.arguments.message)))
            /\ UNCHANGED <<pc, response>>
       ELSE /\ procs' = Settle(procs, status)
            /\ Return(Result(BroadcastText(targets, rs)))

\* the code after `await runSnd(...)` in agentBroadcast: the rest of the loop
AfterBroadcast(status) ==
    LET k == Len(procs)
        line == IF status = "exit0" THEN OkLine(targets[k])
                ELSE FailLine(targets[k], status)
        rs == Append(results, line) IN
    /\ results' = rs
    /\ IF k < Len(targets)
       THEN /\ procs' = Append(Settle(procs, status),
                               SndProc(targets[k + 1].tmux_pane,
                                       BroadcastMsg(req.arguments.agent_id,
                                                    req.arguments.message)))
            /\ UNCHANGED <<pc, response>>
       ELSE /\ procs' = Settle(procs, status)
            /\ Return(Result(BroadcastText(targets, rs)))

\* (the presence files are read again after every delivery)
SndSettlesMutReread(status) ==
    /\ variant = "direct"
    /\ pc = "await"
    /\ IF req.name = "agent_dm" THEN AfterDM(status) /\ UNCHANGED targets
       ELSE LET ts == Filter(getActiveAgents(files, FALSE, now), req.arguments.agent_id)
                k == Len(procs)
                rs == Append(results, IF status = "exit0" THEN OkLine(targets[k])
                                      ELSE FailLine(targets[k], status)) IN
            /\ targets' = ts
            /\ results' = rs
            /\ IF k < Len(ts)
               THEN /\ procs' = Append(Settle(procs, status),
                                       SndProc(ts[k + 1].tmux_pane,
                                               BroadcastMsg(req.arguments.agent_id,
                                                            req.arguments.message)))
                    /\ UNCHANGED <<pc, response>>
               ELSE /\ procs' = Settle(procs, status)
                    /\ Return(Result(BroadcastText(ts, rs)))
    /\ UNCHANGED <<variant, files, now, fsOps, req, agents, agentId, subs, elapsed, prev>>

\* runSnd settles: proc.on("close", code) with code 0 or not, or proc.on("error")
SndSettles(status) ==
    /\ variant = "direct"
    /\ pc = "await"
    /\ IF req.name = "agent_dm" THEN AfterDM(status) ELSE AfterBroadcast(status)
    /\ UNCHANGED <<variant, files, now, fsOps, req, agents, targets, agentId, subs,
                   elapsed, prev>>

SndClose == \E code \in {"exit0", "exit1"} : SndSettles(code)

SndError == SndSettles("error")

----------------------------------------------------------------------------
(* Bus variant: src/src/index.ts *)

NATS_URL == Str("nats://localhost:4222")

NatsTools ==
    {"nats_publish", "nats_subscribe", "nats_request", "nats_agent_register",
     "nats_agent_deregister", "nats_agent_broadcast", "nats_agent_dm",
     "nats_agent_check_messages", "nats_agent_heartbeat"}

\* the timeouts a caller supplies, in milliseconds
Timeouts == {0, 1000}

NatsRequests ==
    {Request("nats_agent_register", [name |-> n, description |-> Str("d")]) : n \in Names}
    \cup {Request("nats_agent_deregister", [agent_id |-> i]) : i \in {BobbyId, GhostId}}
    \cup {Request("nats_agent_broadcast", [agent_id |-> BobbyId, message |-> m]) :
            m \in Messages}
    \cup {Request("nats_agent_broadcast",
                  [agent_id |-> BobbyId, message |-> m, priority |-> Str("high")]) :
            m \in Messages}
    \cup {Request("nats_agent_dm", [agent_id |-> BobbyId, to |-> AliceId, message |-> m]) :
            m \in Messages}
    \cup {Request("nats_agent_heartbeat", [agent_id |-> BobbyId])}
    \cup {Request("nats_agent_heartbeat", [agent_id |-> BobbyId, status |-> Str("busy")])}
    \cup {Request("nats_agent_check_messages", [agent_id |-> BobbyId])}
    \cup {Request("nats_agent_check_messages", [agent_id |-> BobbyId, timeout |-> t]) :
            t \in Timeouts}
    \* an agent_id that is a subject wildcard
    \cup {Request("nats_agent_check_messages", [agent_id |-> Str("*")])}
    \cup {Request("nats_subscribe", [subject |-> Str("agents.broadcast")])}
    \cup {Request("nats_subscribe",
                  [subject |-> Str("agents.broadcast"), count |-> 0, timeout |-> 1000])}
    \cup {Request("nats_publish",
                  [subject |-> Str("updates"), message |-> m,
                   headers |-> <<[key |-> Str("k"), value |-> Str("v")]>>]) : m \in Messages}
    \cup {Request("nats_request", [subject |-> Str("help"), message |-> m]) : m \in Messages}
    \* arguments that fail validation, and a tool this server does not have
    \cup {Request("nats_agent_dm", [agent_id |-> BobbyId])}
    \cup {Request("nats_agent_dm",
                  [agent_id |-> BobbyId, to |-> AliceId, message |-> NotAString])}
    \cup {Request("nats_agent_broadcast",
                  [agent_id |-> BobbyId, message |-> m, priority |-> Str("urgent")]) :
            m \in Messages}
    \cup {Request("nats_subscribe", <<>>)}
    \cup {Request("agent_discover", <<>>)}

\* the agent operations that publish one envelope
PublishingTools ==
    {"nats_agent_register", "nats_agent_deregister", "nats_agent_broadcast",
     "nats_agent_dm", "nats_agent_heartbeat"}

\* the core tools that run one nats command and return its output
CoreTools == {"nats_publish", "nats_request"}

\* the tools that subscribe
SubscribingTools == {"nats_subscribe", "nats_agent_check_messages"}

NatsRequired(name) ==
    CASE name = "nats_agent_register" -> {"name", "description"}
      [] name = "nats_agent_deregister" -> {"agent_id"}
      [] name = "nats_agent_broadcast" -> {"agent_id", "message"}
      [] name = "nats_agent_dm" -> {"agent_id", "to", "message"}
      [] name = "nats_agent_heartbeat" -> {"agent_id"}
      [] name = "nats_agent_check_messages" -> {"agent_id"}
      [] name = "nats_subscribe" -> {"subject"}
      [] name = "nats_publish" -> {"subject", "message"}
      [] name = "nats_request" -> {"subject", "message"}
      [] OTHER -> {}

NatsParses(r) == NatsRequired(r.name) \subseteq DOMAIN r.arguments /\ WellTyped(r)

\* JSON.stringify of an object, given as its <<key, value text>> pairs in order
RECURSIVE JsonFields(_)
JsonFields(kvs) ==
    IF kvs = <<>> THEN <<>>
    ELSE <<"\"", Head(kvs)[1], "\":">> \o Head(kvs)[2]
            \o (IF Len(kvs) > 1 THEN <<",">> ELSE <<>>) \o JsonFields(Tail(kvs))

JsonObject(kvs) == <<"{">> \o JsonFields(kvs) \o <<"}">>

\* JSON.stringify of a string and of a number
JsonStr(s) == <<"\"">> \o s \o <<"\"">>

JsonNum(n) == NumStr(n)

\* runNatsCommand: spawn("nats", ["-s", NATS_URL, ...args])
NatsProc(args) ==
    [cmd |-> "nats", argv |-> <<Str("-s"), NATS_URL>> \o args, status |-> "running"]

\* (the envelope is sent as a request, which waits for a reply)
publishMutRequest(subject, message) == NatsProc(<<Str("request"), subject, message>>)

\* publish({ subject, message }): runNatsCommand(["publish", subject, message])
publish(subject, message) == NatsProc(<<Str("publish"), subject, message>>)

\* cmdArgs.push("-H", `${h.key}:${h.value}`) for each header
RECURSIVE HeaderArgs(_)
HeaderArgs(hs) ==
    IF hs = <<>> THEN <<>>
    ELSE <<Str("-H"), Head(hs).key \o <<":">> \o Head(hs).value>> \o HeaderArgs(Tail(hs))

\* the command line of the core tools: publish with its headers, natsRequest
CoreArgs(r) ==
    IF r.name = "nats_publish"
    THEN <<Str("publish"), r.arguments.subject, r.arguments.message>>
            \o HeaderArgs(Arg(r, "headers", <<>>))
    ELSE <<Str("request"), r.arguments.subject, r.arguments.message, Str("--timeout"),
           NumStr(OrDefault(Arg(r, "timeout", 5000), 5000)) \o <<"ms">> >>

\* what a nats command may have written to stdout when it exits
Outputs == {<<>>, <<"Published 5 bytes to \"updates\"", "\n">>}

EnvelopeMutSubject(r, id, t) ==
    [subject |-> Str("agents.broadcast"),
     payload |-> JsonObject(<<<<"id", JsonStr(id)>>, <<"ts", JsonNum(t)>> >>)]

\* the subject and the payload each agent operation publishes
Envelope(r, id, t) ==
    CASE r.name = "nats_agent_register" ->
            [subject |-> Str("agents.register"),
             payload |-> JsonObject(<<
                <<"id", JsonStr(id)>>, <<"name", JsonStr(r.arguments.name)>>,
                <<"description", JsonStr(r.arguments.description)>>,
                <<"ts", JsonNum(t)>> >>)]
      [] r.name = "nats_agent_deregister" ->
            [subject |-> Str("agents.deregister"),
             payload |-> JsonObject(<<
                <<"id", JsonStr(r.arguments.agent_id)>>, <<"ts", JsonNum(t)>> >>)]
      [] r.name = "nats_agent_broadcast" ->
            [subject |-> Str("agents.broadcast"),
             payload |-> JsonObject(<<
                <<"from", JsonStr(r.arguments.agent_id)>>,
                <<"msg", JsonStr(r.arguments.message)>>,
                <<"priority", JsonStr(OrElse(Arg(r, "priority", Str("normal")),
                                             Str("normal")))>>,
                <<"ts", JsonNum(t)>> >>)]
      [] r.name = "nats_agent_dm" ->
            [subject |-> <<"agents.dm.">> \o r.arguments.to,
             payload |-> JsonObject(<<
                <<"from", JsonStr(r.arguments.agent_id)>>,
                <<"to", JsonStr(r.arguments.to)>>,
                <<"msg", JsonStr(r.arguments.message)>>,
                <<"ts", JsonNum(t)>> >>)]
      [] OTHER ->
            [subject |-> <<"agents.heartbeat.">> \o r.arguments.agent_id,
             payload |-> JsonObject(<<
                <<"id", JsonStr(r.arguments.agent_id)>>,
                <<"status", JsonStr(OrElse(Arg(r, "status", Str("active")),
                                           Str("active")))>>,
                <<"ts", JsonNum(t)>> >>)]

\* what each agent operation returns once its publish has resolved
Confirmation(r, id) ==
    CASE r.name = "nats_agent_register" -> RegisteredText(id)
      [] r.name = "nats_agent_deregister" -> DeregisteredText
      [] r.name = "nats_agent_broadcast" -> <<Str("Broadcast sent")>>
      [] r.name = "nats_agent_dm" -> <<<<"DM sent to ">> \o r.arguments.to>>
      [] OTHER -> <<Str("Heartbeat sent")>>

\* the message of the Error runNatsCommand rejects with
NatsFailure(status) ==
    IF status = "error" THEN <<"spawn nats ENOENT">>
    ELSE <<"nats: error: nats: no servers available for connection">>

NatsReject(r) ==
    /\ variant = "bus"
    /\ Begin(r)
    /\ \/ r.name \notin NatsTools
       \/ ~NatsParses(r)
    /\ Return(ErrorResult(IF r.name \notin NatsTools
                          THEN <<"Unknown tool: ", r.name>>
                          ELSE ZodIssue(r, NatsRequired(r.name))))
    /\ agents' = <<>> /\ targets' = <<>> /\ results' = <<>> /\ procs' = <<>>
    /\ agentId' = <<>> /\ subs' = <<>>

\* agentRegister, agentDeregister, agentBroadcast, agentDM, agentHeartbeat of the
\* bus server, each up to its `await publish(...)`
natsAgentOp(r) ==
    /\ variant = "bus"
    /\ Begin(r)
    /\ r.name \in PublishingTools /\ NatsParses(r)
    /\ \E suffix \in HexSuffixes :
         LET id == IF r.name = "nats_agent_register"
                   THEN generateAgentId(r.arguments.name, suffix) ELSE <<>>
             env == Envelope(r, id, now) IN
         /\ agentId' = id
         /\ procs' = <<publish(env.subject, env.payload)>>
    /\ pc' = "await"
    /\ response' = NoResponse
    /\ agents' = <<>> /\ targets' = <<>> /\ results' = <<>> /\ subs' = <<>>

\* (the exit code of the nats command is not looked at)
NatsSettlesMutAnyCode(status) ==
    /\ variant = "bus"
    /\ pc = "await" /\ req.name \notin SubscribingTools
    /\ procs' = Settle(procs, status)
    /\ \E stdout \in Outputs :
         Return(IF status = "error" THEN ErrorResult(NatsFailure(status))
                ELSE IF req.name \in CoreTools
                THEN Result(<<OrElse(Trim(stdout), Str("OK"))>>)
                ELSE Result(Confirmation(req, agentId)))
    /\ UNCHANGED <<variant, files, now, fsOps, req, agents, targets, results, agentId,
                   subs, elapsed, prev>>

\* runNatsCommand settles: code 0 resolves, any other code and "error" reject, and
\* the rejection reaches the handler's catch clause
NatsSettles(status) ==
    /\ variant = "bus"
    /\ pc = "await" /\ req.name \notin SubscribingTools
    /\ procs' = Settle(procs, status)
    /\ \E stdout \in Outputs :
         Return(IF status # "exit0" THEN ErrorResult(NatsFailure(status))
                ELSE IF req.name \in CoreTools
                THEN Result(<<OrElse(Trim(stdout), Str("OK"))>>)   \* stdout.trim() || "OK"
                ELSE Result(Confirmation(req, agentId)))
    /\ UNCHANGED <<variant, files, now, fsOps, req, agents, targets, results, agentId,
                   subs, elapsed, prev>>

NatsClose == \E code \in {"exit0", "exit1"} : NatsSettles(code)

NatsError == NatsSettles("error")

----------------------------------------------------------------------------
(* Bus variant: subscribe and agentCheckMessages *)

\* every agent session runs its own server on the same bus: the agent operations
\* whose envelopes the other sessions may publish while a subscriber of this one
\* listens
PeerRequests ==
    {Request("nats_agent_broadcast", [agent_id |-> BobbyId, message |-> Str("hello")]),
     Request("nats_agent_dm",
             [agent_id |-> BobbyId, to |-> AliceId, message |-> Str("hello")]),
     Request("nats_agent_dm",
             [agent_id |-> AliceId, to |-> BobbyId, message |-> Str("hello")])}

Published(t) == {Envelope(r, <<>>, t) : r \in PeerRequests}

\* `nats subscribe <pattern>` receives what is published on a subject the pattern
\* matches: the subject itself, or, when the pattern ends in the token "*" or ">",
\* any subject that continues the pattern's prefix (agent ids hold no ".", so what
\* continues the prefix is one subject token)
SubjectMatches(pattern, subject) ==
    \/ pattern = subject
    \/ /\ Len(pattern) > 1 /\ pattern[Len(pattern)] \in {"*", ">"}
       /\ Len(subject) >= Len(pattern)
       /\ SubSeq(subject, 1, Len(pattern) - 1) = SubSeq(pattern, 1, Len(pattern) - 1)

\* a received message as the nats command prints it
Received(env) ==
    <<"[#1] Received on \"">> \o env.subject \o <<"\"", "\n">> \o env.payload \o <<"\n">>

\* what a subscriber process may write to stdout in one "data" event: white space
\* only, or a message published on a matching subject while it listens
Chunks(subject, t) ==
    {<<"\n">>}
    \cup {Received(env) : env \in {e \in Published(t) : SubjectMatches(subject, e.subject)}}

NoMessagesText == Str("No messages")

NoMessagesReceivedText == Str("No messages received")

\* a settled promise
Resolved(value) == <<[ok |-> TRUE, value |-> value]>>

Rejected(message) == <<[ok |-> FALSE, value |-> message]>>

Pending == <<>>

\* spawn("nats", ["-s", NATS_URL, "subscribe", subject, "--count", String(count || 1)])
SubscribeProc(subject, count) ==
    NatsProc(<<Str("subscribe"), subject, Str("--count"), NumStr(OrDefault(count, 1))>>)

\* setTimeout(..., args.timeout || 5000)
SubscribeDelay(timeout) == OrDefault(timeout, 5000)

\* the state subscribe starts in: let stdout = "", the timer set; closed records that
\* the process has emitted its close event
Subscription(timeout) ==
    [stdout |-> <<>>, n |-> 0, timer |-> "armed", delay |-> SubscribeDelay(timeout),
     outcome |-> Pending, closed |-> FALSE]

\* (the last resolve or reject wins)
SettleOnceMutLast(sub, outcome) == outcome

\* resolve / reject: a promise settles once
SettleOnce(sub, outcome) == IF sub.outcome = Pending THEN outcome ELSE sub.outcome

ClearTimeout(sub) == IF sub.timer = "armed" THEN "cleared" ELSE sub.timer

\* proc.stdout.on("data", (data) => (stdout += data.toString()))
OnData(sub, chunk) == [sub EXCEPT !.stdout = @ \o chunk, !.n = @ + 1]

\* proc.on("close"): clearTimeout(timeoutId); resolve(stdout.trim() || "No messages")
OnClose(sub) ==
    [sub EXCEPT !.timer = ClearTimeout(sub),
                !.outcome = SettleOnce(sub, Resolved(OrElse(Trim(sub.stdout), NoMessagesText)))]

\* proc.on("error"): clearTimeout(timeoutId); reject(err)
OnError(sub) ==
    [sub EXCEPT !.timer = ClearTimeout(sub),
                !.outcome = SettleOnce(sub, Rejected(<<"spawn nats ENOENT">>))]

\* (a timeout is reported as a failure)
OnTimeoutMutReject(sub) ==
    [sub EXCEPT !.timer = "fired",
                !.outcome = SettleOnce(sub, Rejected(<<"Timeout">>))]

\* the timer's callback: proc.kill(); resolve(stdout || "No messages received")
OnTimeout(sub) ==
    [sub EXCEPT !.timer = "fired",
                !.outcome = SettleOnce(sub, Resolved(OrElse(sub.stdout, NoMessagesReceivedText)))]

\* dms && dms !== "No messages" && dms !== "No messages received"
IsSection(text) ==
    Truthy(text) /\ text # NoMessagesText /\ text # NoMessagesReceivedText

\* (the broadcast subscription's output is left out of the result)
CheckTextMutDMsOnly(dms, broadcasts) ==
    IF IsSection(dms) THEN <<Str("[DMs]"), dms>> ELSE <<NoMessagesText>>

\* messages.length > 0 ? messages.join("\n\n") : "No messages", as lines: a section
\* is its title line and the subscription's output, sections are one empty line apart
CheckText(dms, broadcasts) ==
    LET dmPart == IF IsSection(dms) THEN <<Str("[DMs]"), dms>> ELSE <<>>
        bcPart == IF IsSection(broadcasts) THEN <<Str("[Broadcasts]"), broadcasts>> ELSE <<>>
    IN IF dmPart = <<>> /\ bcPart = <<>> THEN <<NoMessagesText>>
       ELSE IF dmPart # <<>> /\ bcPart # <<>> THEN dmPart \o <<<<>>>> \o bcPart
       ELSE dmPart \o bcPart

\* what the handler's await has got from the promises: nothing yet (<<>>), or the
\* response it returns.  `await subscribe(...)` in nats_subscribe;
\* `await Promise.all([...])` in agentCheckMessages: rejected by the first rejection,
\* resolved once both are
Awaited(r, ss) ==
    IF r.name = "nats_subscribe"
    THEN IF ss[1].outcome = Pending THEN <<>>
         ELSE IF ss[1].outcome[1].ok THEN <<Result(<<ss[1].outcome[1].value>>)>>
         ELSE <<ErrorResult(ss[1].outcome[1].value)>>
    ELSE IF \E i \in DOMAIN ss : ss[i].outcome # Pending /\ ~ss[i].outcome[1].ok
    THEN LET i == CHOOSE i \in DOMAIN ss : ss[i].outcome # Pending /\ ~ss[i].outcome[1].ok
         IN <<ErrorResult(ss[i].outcome[1].value)>>
    ELSE IF \A i \in DOMAIN ss : ss[i].outcome # Pending
    THEN <<Result(CheckText(ss[1].outcome[1].value, ss[2].outcome[1].value))>>
    ELSE <<>>

\* the tool nats_subscribe, up to its await
natsSubscribe(r) ==
    /\ variant = "bus"
    /\ Begin(r)
    /\ r.name = "nats_subscribe" /\ NatsParses(r)
    /\ procs' = <<SubscribeProc(r.arguments.subject, Arg(r, "count", 1))>>
    /\ subs' = <<Subscription(Arg(r, "timeout", 5000))>>
    /\ pc' = "await"
    /\ response' = NoResponse
    /\ agents' = <<>> /\ targets' = <<>> /\ results' = <<>> /\ agentId' = <<>>

\* agentCheckMessages up to its await: both subscriptions are started
agentCheckMessages(r) ==
    /\ variant = "bus"
    /\ Begin(r)
    /\ r.name = "nats_agent_check_messages" /\ NatsParses(r)
    /\ LET timeout == OrDefault(Arg(r, "timeout", 5000), 5000)
           dmSubject == <<"agents.dm.">> \o r.arguments.agent_id
           broadcastSubject == Str("agents.broadcast") IN
         /\ procs' = <<SubscribeProc(dmSubject, 10), SubscribeProc(broadcastSubject, 10)>>
         /\ subs' = <<Subscription(timeout), Subscription(timeout)>>
    /\ pc' = "await"
    /\ response' = NoResponse
    /\ agents' = <<>> /\ targets' = <<>> /\ results' = <<>> /\ agentId' = <<>>

\* the tools nats_publish and nats_request, up to `await runNatsCommand(...)`
natsCore(r) ==
    /\ variant = "bus"
    /\ Begin(r)
    /\ r.name \in CoreTools /\ NatsParses(r)
    /\ procs' = <<NatsProc(CoreArgs(r))>>
    /\ pc' = "await"
    /\ response' = NoResponse
    /\ agents' = <<>> /\ targets' = <<>> /\ results' = <<>> /\ agentId' = <<>>
    /\ subs' = <<>>

NatsCallTool ==
    \E r \in NatsRequests :
        \/ NatsReject(r)
        \/ natsAgentOp(r)
        \/ natsCore(r)
        \/ natsSubscribe(r)
        \/ agentCheckMessages(r)

\* an event of subscription i is handled, and the handler goes on if its await has
\* settled; the subscriptions outlive the handler's await (a killed process still
\* closes, the other subscription of a rejected Promise.all runs on), so their
\* events are handled after the handler has returned as well
SubStep(ps, ss) ==
    /\ variant = "bus"
    /\ pc \in {"await", "done"} /\ req.name \in SubscribingTools
    /\ procs' = ps
    /\ subs' = ss
    /\ IF pc = "done" \/ Awaited(req, ss) = <<>> THEN UNCHANGED <<pc, response>>
       ELSE Return(Awaited(req, ss)[1])
    /\ UNCHANGED <<variant, files, now, fsOps, req, agents, targets, results, agentId,
                   elapsed, prev>>

\* the subject procs[i] subscribes to
SubjectOf(p) == p.argv[4]

SubData ==
    \E i \in DOMAIN subs :
        /\ procs[i].status = "running" /\ subs[i].n < MaxChunks
        /\ \E chunk \in Chunks(SubjectOf(procs[i]), now) :
             SubStep(procs, [subs EXCEPT ![i] = OnData(subs[i], chunk)])

\* (a non-zero exit code rejects, as in runNatsCommand)
SubCloseMutCode ==
    \E i \in DOMAIN subs : \E code \in {"exit0", "exit1"} :
        /\ ~subs[i].closed
        /\ SubStep([procs EXCEPT ![i].status = IF @ = "running" THEN code ELSE @],
                   [subs EXCEPT ![i] =
                       [(IF procs[i].status = "running" /\ code = "exit1"
                         THEN OnError(subs[i]) ELSE OnClose(subs[i]))
                        EXCEPT !.closed = TRUE]])

\* the close event of a subscriber process: it has exited, with whatever code, or
\* it closes after it was killed or after its spawn error
SubClose ==
    \E i \in DOMAIN subs : \E code \in {"exit0", "exit1"} :
        /\ ~subs[i].closed
        /\ SubStep([procs EXCEPT ![i].status = IF @ = "running" THEN code ELSE @],
                   [subs EXCEPT ![i] = [OnClose(subs[i]) EXCEPT !.closed = TRUE]])

\* the subscriber process could not be spawned
SubError ==
    \E i \in DOMAIN subs :
        /\ procs[i].status = "running" /\ subs[i].n = 0
        /\ SubStep([procs EXCEPT ![i].status = "error"], [subs EXCEPT ![i] = OnError(subs[i])])

\* the timer of subscription i fires
SubTimeout ==
    \E i \in DOMAIN subs :
        /\ subs[i].timer = "armed" /\ elapsed >= subs[i].delay
        /\ SubStep([procs EXCEPT ![i].status = "killed"], [subs EXCEPT ![i] = OnTimeout(subs[i])])

\* the delays of the timers that are set
ArmedDelays == {subs[i].delay : i \in {j \in DOMAIN subs : subs[j].timer = "armed"}}

\* time passes, up to the next timer that is due
Elapse ==
    /\ pc \in {"await", "done"}
    /\ ArmedDelays # {}
    /\ \A d \in ArmedDelays : d > elapsed
    /\ elapsed' = CHOOSE d \in ArmedDelays : \A e \in ArmedDelays : d <= e
    /\ UNCHANGED <<variant, files, now, fsOps, pc, req, agents, targets, results, procs,
                   agentId, response, subs, prev>>

\* return { content: [{ type: "text", text: result }] }, or the catch clause's
\* return: the call is over and its locals are gone
Respond ==
    /\ pc = "done"
    /\ pc' = "idle"
    /\ prev' = PrevOf(req, response)
    /\ req' = Request("", <<>>)
    /\ agents' = <<>> /\ targets' = <<>> /\ results' = <<>> /\ procs' = <<>>
    /\ agentId' = <<>>
    /\ response' = NoResponse
    /\ subs' = <<>> /\ elapsed' = 0
    /\ UNCHANGED <<variant, files, now, fsOps>>

CallTool ==
    \E r \in DirectRequests :
        \/ Reject(r)
        \/ agentRegister(r)
        \/ agentDeregister(r)
        \/ agentDiscover(r)
        \/ agentDM(r)
        \/ agentBroadcast(r)

----------------------------------------------------------------------------
(* Environment: the tracking files and the clock *)

\* (the handler computes its result and returns it in one synchronous run:
\* no change of the environment falls between the two)
Env(fs, t, n) ==
    /\ pc # "done"
    /\ files' = fs /\ now' = t /\ fsOps' = n
    /\ UNCHANGED <<variant, pc, req, agents, targets, results, procs, agentId,
                   response, subs, elapsed, prev>>

\* a session writes (or touches) its tracking file
WriteFile ==
    /\ variant = "direct" /\ fsOps < MaxFsOps
    /\ \E slot \in Slots : \E d \in SlotData(slot) :
         Env([files EXCEPT ![slot] = File(d, now)], now, fsOps + 1)

\* a session removes its tracking file
RemoveFile ==
    /\ variant = "direct" /\ fsOps < MaxFsOps
    /\ \E slot \in Slots :
         /\ files[slot] # NoFile
         /\ Env([files EXCEPT ![slot] = NoFile], now, fsOps + 1)

Tick ==
    /\ now < StartTime + MaxTicks
    /\ Env(files, now + 1, fsOps)

----------------------------------------------------------------------------

\* the direct server reads /tmp; the bus server never does
Init ==
    /\ variant \in {"direct", "bus"}
    /\ files \in {f \in [Slots -> UNION {FileStates(s) : s \in Slots}] :
                    \A s \in Slots : f[s] \in FileStates(s)}
    /\ variant = "bus" => \A s \in Slots : files[s] = NoFile
    /\ now = StartTime
    /\ fsOps = 0
    /\ pc = "idle"
    /\ req = Request("", <<>>)
    /\ agents = <<>> /\ targets = <<>> /\ results = <<>> /\ procs = <<>>
    /\ agentId = <<>>
    /\ response = NoResponse
    /\ subs = <<>> /\ elapsed = 0
    /\ prev = <<>>

Next ==
    \/ CallTool
    \/ NatsCallTool
    \/ Respond
    \/ NatsClose
    \/ NatsError
    \/ SndClose
    \/ SndError
    \/ SubData
    \/ SubClose
    \/ SubError
    \/ SubTimeout
    \/ Elapse
    \/ WriteFile
    \/ RemoveFile
    \/ Tick

Spec == Init /\ [][Next]_vars

----------------------------------------------------------------------------
(* The tracking files as the claims speak of them *)

ValidAt(s) == files[s] # NoFile /\ files[s][1].data.valid

AgeAt(s) == now - files[s][1].mtimeMs

\* a well-formed file whose age is within the staleness threshold
FreshAt(s) == ValidAt(s) /\ AgeAt(s) <= staleThreshold

IdAt(s) == files[s][1].data.agent_id

NameAt(s) == files[s][1].data.agent_name

HasPaneAt(s) ==
    /\ files[s][1].data.tmux_session # <<>>
    /\ files[s][1].data.tmux_window # <<>>
    /\ files[s][1].data.tmux_pane # <<>>

\* session:window.pane
PaneAt(s) ==
    files[s][1].data.tmux_session \o <<":">> \o files[s][1].data.tmux_window
        \o <<".">> \o files[s][1].data.tmux_pane

\* the agents a broadcast by sender may deliver to
UsableSlots == {s \in Slots : FreshAt(s) /\ HasPaneAt(s)}

OtherSlots(sender) == {s \in UsableSlots : IdAt(s) # sender}

Range(f) == {f[i] : i \in DOMAIN f}

IsPrefix(p, l) == Len(p) <= Len(l) /\ SubSeq(l, 1, Len(p)) = p

\* a line of a discover result that lists the agent (name, id), with its marker
ListsAs(text, name, id, marker) ==
    \E l \in Range(text) :
        IsPrefix(<<"- ">> \o name \o <<" (">> \o id \o <<"): ", marker>>, l)

Lists(text, name, id) ==
    ListsAs(text, name, id, "stale") \/ ListsAs(text, name, id, "active")

\* a step in which the handler takes up a call of the tool and its arguments parse
Begins(tool) == pc = "idle" /\ pc' # "idle" /\ req'.name = tool /\ ~response'.isError

----------------------------------------------------------------------------
(* C1 *)

\* the targets fixed at the presence read: one per usable agent other than the
\* sender, no other
C1_Targets ==
    Begins("agent_broadcast") =>
        LET S == req'.arguments.agent_id IN
        /\ \A s \in OtherSlots(S) :
             Cardinality({i \in DOMAIN targets' :
                            /\ targets'[i].id = IdAt(s)
                            /\ targets'[i].tmux_pane = PaneAt(s)}) = 1
        /\ Len(targets') = Cardinality(OtherSlots(S))
        /\ Cardinality(UsableSlots \ OtherSlots(S)) = 1
              => Len(targets') = Cardinality(UsableSlots) - 1

\* the runSnd invocations: the i-th to the i-th target, all of them once the
\* broadcast has its result
C1_Deliveries ==
    (req'.name = "agent_broadcast" /\ pc' \in {"await", "done"} /\ ~response'.isError) =>
        /\ Len(procs') <= Len(targets')
        /\ pc' = "done" => Len(procs') = Len(targets')
        /\ \A i \in DOMAIN procs' :
             procs'[i].cmd = "snd" /\ procs'[i].argv[2] = targets'[i].tmux_pane

\* C1: a broadcast by sender S, with N non-stale agents with a usable pane in the
\* presence listing and S among them, makes exactly N-1 runSnd invocations: one for
\* each such agent other than S, none for S, none for an agent without a pane and
\* none for a stale agent.
C1_BroadcastExcludesSender == [][C1_Targets /\ C1_Deliveries]_vars

\* a broadcast by bobby has returned after two deliveries, bobby being listed
C1_Witness ==
    /\ pc = "done" /\ req.name = "agent_broadcast"
    /\ req.arguments.agent_id = BobbyId
    /\ Len(agents) = 3 /\ agents[1].id = BobbyId
    /\ Len(procs) = 2

----------------------------------------------------------------------------
(* C2 *)

\* C2: a broadcast with no eligible target (no other non-stale agent with a pane)
\* returns "No other agents to broadcast to", which is no error, and invokes runSnd
\* zero times.
C2_NoTargetsSentinel ==
    [][(Begins("agent_broadcast") /\ OtherSlots(req'.arguments.agent_id) = {}) =>
          /\ pc' = "done"
          /\ response' = [isError |-> FALSE,
                          text |-> <<<<"No other agents to broadcast to">>>>]
          /\ procs' = <<>>]_vars

\* the sentinel was returned while agents were listed, none of them eligible
C2_Witness ==
    /\ pc = "done" /\ req.name = "agent_broadcast"
    /\ response.text = <<<<"No other agents to broadcast to">>>>
    /\ Len(agents) = 2 /\ procs = <<>>

----------------------------------------------------------------------------
(* C3 *)

Settled == {"exit0", "exit1", "error"}

\* C3: a failed delivery never aborts a broadcast: whichever deliveries fail, every
\* target is attempted exactly once, the result holds one outcome line per target
\* (success, or failure with its reason) under a count of the attempted targets, and
\* it is a normal result.
C3_FailureDoesNotAbort ==
    (pc = "done" /\ req.name = "agent_broadcast" /\ targets # <<>>) =>
        /\ ~response.isError
        /\ Len(procs) = Len(targets)
        /\ Len(response.text) = 1 + Len(targets)
        /\ response.text[1] = <<"Broadcast sent to ">> \o NumStr(Len(procs)) \o <<" agent(s):">>
        /\ \A i \in DOMAIN targets :
             /\ procs[i].argv[2] = targets[i].tmux_pane
             /\ procs[i].status \in Settled
             /\ procs[i].status = "exit0" =>
                    response.text[i + 1] = <<"ok ">> \o targets[i].name
             /\ procs[i].status = "exit1" =>
                    response.text[i + 1] = <<"failed ">> \o targets[i].name
                        \o <<": ", "Error: ", "snd failed with code ", "1">>
             /\ procs[i].status = "error" =>
                    response.text[i + 1] = <<"failed ">> \o targets[i].name
                        \o <<": ", "Error: ", "spawn snd ENOENT">>

\* a broadcast has returned whose first delivery failed and whose second succeeded
C3_Witness ==
    /\ pc = "done" /\ req.name = "agent_broadcast"
    /\ Len(procs) = 2
    /\ procs[1].status = "exit1" /\ procs[2].status = "exit0"

----------------------------------------------------------------------------
(* C4 *)

\* the reference names no listed agent, by id or by name
MatchesNone(to) ==
    \A s \in Slots : FreshAt(s) => (IdAt(s) # to /\ NameAt(s) # to)

\* C4: a direct message whose `to` matches no agent of the presence listing returns
\* the not-found result, which is no error, and invokes runSnd zero times.
C4_DMNotFound ==
    [][(Begins("agent_dm") /\ MatchesNone(req'.arguments.to)) =>
          /\ pc' = "done"
          /\ response' = [isError |-> FALSE,
                          text |-> <<<<"Agent ">> \o req'.arguments.to \o <<" not found">>>>]
          /\ procs' = <<>>]_vars

\* not-found was returned for an id nobody has, while agents were listed
C4_Witness ==
    /\ pc = "done" /\ req.name = "agent_dm" /\ ~response.isError
    /\ req.arguments.to = GhostId
    /\ response.text = <<<<"Agent ">> \o GhostId \o <<" not found">>>>
    /\ Len(agents) >= 2 /\ procs = <<>>

----------------------------------------------------------------------------
(* C5 *)

\* C5 (as claimed): in a direct message, a `to` that is the short name of exactly
\* one listed agent, and the id of none, is delivered to that agent; a `to` that is
\* a full id is delivered to the agent with that id.
C5_ShortNameResolution ==
    [][Begins("agent_dm") =>
          \A s \in UsableSlots :
              LET to == req'.arguments.to
                  byId == IdAt(s) = to
                  byName == /\ NameAt(s) = to
                            /\ \A o \in Slots : FreshAt(o) =>
                                  (IdAt(o) # to /\ (NameAt(o) = to => o = s))
              IN (byId \/ byName) =>
                    /\ Len(procs') = 1
                    /\ procs'[1].cmd = "snd"
                    /\ procs'[1].argv[2] = PaneAt(s)]_vars

----------------------------------------------------------------------------
(* C6 *)

DiscoverDone == pc = "done" /\ req.name = "agent_discover" /\ ~response.isError

IncludeStale ==
    IF "include_stale" \in DOMAIN req.arguments THEN req.arguments.include_stale ELSE FALSE

----------------------------------------------------------------------------
(* C7 *)

\* C7 (as claimed): discovery does not filter by file age: an agent whose tracking
\* file exists is returned by discover(include_stale=false) however old the file,
\* and no agent is ever marked stale.
C7_NoAgeFilter ==
    DiscoverDone =>
        \A s \in Slots : ValidAt(s) =>
            /\ ~IncludeStale => ListsAs(response.text, NameAt(s), IdAt(s), "active")
            /\ ~ListsAs(response.text, NameAt(s), IdAt(s), "stale")

----------------------------------------------------------------------------
(* C8 *)

\* C8 (as claimed): after register(name, description) has returned id X, a following
\* discover (no deregister of X in between, less than the threshold elapsed) lists an
\* agent with id X and that name.
C8_RegisterPersists ==
    (DiscoverDone /\ prev # <<>> /\ prev[1].op = "register") =>
        Lists(response.text, prev[1].name, prev[1].id)

----------------------------------------------------------------------------
(* C9 *)

\* C9 (as claimed): after deregister(X) has returned, a later discover does not list
\* X, a later broadcast attempts no delivery to X, and a direct message to X returns
\* not-found.
C9_DeregisterRemoves ==
    (prev # <<>> /\ prev[1].op = "deregister" /\ pc \in {"await", "done"}
        /\ ~response.isError) =>
        LET X == prev[1].id IN
        /\ req.name = "agent_discover" =>
              \A l \in Range(response.text) :
                  \A i \in 1 .. Len(l) : ~IsPrefix(<<" (">> \o X \o <<"): ">>, SubSeq(l, i, Len(l)))
        /\ req.name = "agent_broadcast" =>
              \A i \in DOMAIN targets : targets[i].id # X
        /\ (req.name = "agent_dm" /\ req.arguments.to = X) =>
              /\ procs = <<>>
              /\ pc = "done" => response.text = <<<<"Agent ">> \o X \o <<" not found">>>>

----------------------------------------------------------------------------
(* C10 *)

DeregisterDone ==
    /\ pc = "done"
    /\ req.name \in {"agent_deregister", "nats_agent_deregister"}
    /\ "agent_id" \in DOMAIN req.arguments

\* the call before this one deregistered the same id
Repeated == prev # <<>> /\ prev[1].op = "deregister" /\ prev[1].id = req.arguments.agent_id

----------------------------------------------------------------------------
(* C11 *)

\* the call that returned last registered the sender of this one
RegisteredSender(r) ==
    /\ prev # <<>> /\ prev[1].op = "register"
    /\ "agent_id" \in DOMAIN r.arguments
    /\ r.arguments.agent_id = prev[1].id

----------------------------------------------------------------------------
(* C12 *)

\* agentDM has resolved `to` to an agent with a pane
DMResolved ==
    /\ req.name = "agent_dm" /\ pc \in {"await", "done"} /\ targets # <<>>
    /\ targets[1].tmux_pane # <<>>

\* C12: a direct message to a resolved agent with a pane invokes runSnd exactly once,
\* on that pane; when the delivery fails (non-zero exit or spawn error) the call
\* returns a normal result "Failed to send DM: <error>", never an error response;
\* when it succeeds the call returns "DM sent to <name of the resolved agent>".
C12_DMOnce ==
    DMResolved =>
        /\ Len(procs) = 1
        /\ procs[1].cmd = "snd"
        /\ procs[1].argv[2] = targets[1].tmux_pane
        /\ pc = "done" =>
              /\ ~response.isError
              /\ procs[1].status \in Settled
              /\ procs[1].status = "exit0" =>
                    response.text = <<<<"DM sent to ">> \o targets[1].name>>
              /\ procs[1].status = "exit1" =>
                    response.text =
                        <<<<"Failed to send DM: ", "Error: ", "snd failed with code ", "1">>>>
              /\ procs[1].status = "error" =>
                    response.text = <<<<"Failed to send DM: ", "Error: ", "spawn snd ENOENT">>>>

\* a direct message has returned after its one delivery failed
C12_Witness ==
    /\ DMResolved /\ pc = "done"
    /\ procs[1].status = "exit1"
    /\ Head(response.text[1]) = "Failed to send DM: "

----------------------------------------------------------------------------
(* C13 *)

\* the tracking file agents.find settles on for the reference: the first one within
\* the threshold that carries the id
ResolvesTo(to, s) ==
    /\ FreshAt(s) /\ IdAt(s) = to
    /\ \A o \in Slots : (o < s /\ FreshAt(o)) => IdAt(o) # to

\* C13: a direct message whose reference resolves to an agent without a pane address
\* returns "Agent <to> has no tmux pane" and invokes runSnd zero times.
C13_DMNoPane ==
    [][(Begins("agent_dm")
            /\ \E s \in Slots : ResolvesTo(req'.arguments.to, s) /\ ~HasPaneAt(s)) =>
          /\ pc' = "done"
          /\ response' = [isError |-> FALSE,
                          text |-> <<<<"Agent ">> \o req'.arguments.to
                                        \o <<" has no tmux pane">>>>]
          /\ procs' = <<>>]_vars

\* the no-pane result was returned for alice, whose file names no pane
C13_Witness ==
    /\ pc = "done" /\ req.name = "agent_dm" /\ ~response.isError
    /\ req.arguments.to = AliceId
    /\ targets # <<>> /\ targets[1].id = AliceId /\ targets[1].tmux_pane = <<>>
    /\ response.text = <<<<"Agent ">> \o AliceId \o <<" has no tmux pane">>>>
    /\ procs = <<>>

----------------------------------------------------------------------------
(* C14 *)

\* C14: a broadcast never returns while a delivery to one of its targets is
\* unsettled: when it returns, every target has been attempted and every attempt
\* has ended, in success or in failure.
C14_BroadcastJoins ==
    (pc = "done" /\ req.name = "agent_broadcast" /\ ~response.isError) =>
        /\ \A i \in DOMAIN targets : i \in DOMAIN procs
        /\ \A i \in DOMAIN procs : procs[i].status # "running"

\* a broadcast has returned after both of its deliveries failed
C14_Witness ==
    /\ pc = "done" /\ req.name = "agent_broadcast"
    /\ Len(targets) = 2 /\ Len(procs) = 2
    /\ procs[1].status = "error" /\ procs[2].status = "exit1"

----------------------------------------------------------------------------
(* C15 *)

CheckDone == pc = "done" /\ req.name = "nats_agent_check_messages" /\ subs # <<>>

\* subscription i has received message text: something other than white space
GotText(i) == \E k \in DOMAIN subs[i].stdout : subs[i].stdout[k] \notin {"\n", " "}

\* the lines of the text that are the section title
TitleLines(text, title) == {k \in DOMAIN text : text[k] = <<title>>}

\* C15 (as claimed): check_messages(A) subscribes to agents.dm.A and to
\* agents.broadcast; it returns "No messages" exactly when neither subscription
\* received message text; otherwise the result has a [DMs] section iff the DM
\* subscription received text and a [Broadcasts] section iff the broadcast
\* subscription did, DMs first; a subscription that received nothing is no error.
C15_CheckMessagesMerge ==
    CheckDone =>
        /\ procs[1].argv[4] = <<"agents.dm.">> \o req.arguments.agent_id
        /\ procs[2].argv[4] = <<"agents.broadcast">>
        /\ response.isError => \E i \in DOMAIN procs : procs[i].status = "error"
        /\ ~response.isError =>
              /\ response.text = <<<<"No messages">>>> <=> (~GotText(1) /\ ~GotText(2))
              /\ TitleLines(response.text, "[DMs]") # {} <=> GotText(1)
              /\ TitleLines(response.text, "[Broadcasts]") # {} <=> GotText(2)
              /\ \A d \in TitleLines(response.text, "[DMs]") :
                    \A b \in TitleLines(response.text, "[Broadcasts]") : d < b

----------------------------------------------------------------------------
(* C16 *)

\* the timeout the caller of check_messages supplied, 5000 ms when it supplied none
Supplied(r) == IF "timeout" \in DOMAIN r.arguments THEN r.arguments.timeout ELSE 5000

\* C16 (as claimed): check_messages starts both subscriptions before it awaits
\* either, gives each the caller-supplied timeout, and returns no later than that
\* one timeout after its start.
C16_SharedTimeout ==
    [][/\ Begins("nats_agent_check_messages") =>
            /\ Len(procs') = 2 /\ Len(subs') = 2
            /\ \A i \in 1 .. 2 :
                 /\ procs'[i].status = "running"
                 /\ subs'[i].timer = "armed"
                 /\ subs'[i].delay = Supplied(req')
       /\ (req'.name = "nats_agent_check_messages" /\ pc' \in {"await", "done"}) =>
            elapsed' <= Supplied(req')]_vars

----------------------------------------------------------------------------
(* C17 *)

\* the step in which the timer of subscription i fires
Fires(i) ==
    /\ i \in DOMAIN subs /\ i \in DOMAIN subs'
    /\ subs[i].timer = "armed" /\ subs'[i].timer = "fired"

\* C17: when the timer of a subscribe fires before its process has closed, the
\* process is killed and the subscribe resolves, never rejects, with the text
\* accumulated so far, or with "No messages received" when nothing was accumulated;
\* the tool nats_subscribe then returns that text as a normal result.
C17_TimeoutResolves ==
    [][\A i \in 1 .. 2 : Fires(i) =>
          LET text == IF subs[i].stdout = <<>> THEN <<"No messages received">>
                      ELSE subs[i].stdout IN
          /\ procs[i].status = "running" /\ procs'[i].status = "killed"
          /\ subs'[i].outcome = <<[ok |-> TRUE, value |-> text]>>
          /\ req.name = "nats_subscribe" =>
                (pc' = "done" /\ response' = [isError |-> FALSE, text |-> <<text>>])]_vars

\* nats_subscribe has returned, by timeout, the text its subscriber had written
C17_Witness ==
    /\ pc = "done" /\ req.name = "nats_subscribe" /\ subs # <<>>
    /\ subs[1].timer = "fired" /\ procs[1].status = "killed"
    /\ subs[1].stdout # <<>>
    /\ response = [isError |-> FALSE, text |-> <<subs[1].stdout>>]

----------------------------------------------------------------------------
(* C18 *)

\* the steps by which the program itself ends a wait for a child process: time
\* running toward a timer that is set, and the timer firing
Abandons == Elapse \/ SubTimeout

\* C18 (as claimed): every transport call is bounded: while a tool call waits for a
\* child process (an snd delivery, a nats publish or request, a subscriber), a timer
\* is running that will abandon the wait, so the call returns even if the process
\* never exits.
C18_BoundedTransport == pc = "await" => ENABLED Abandons

----------------------------------------------------------------------------
(* C19 *)

\* the tools of the server that is running
Tools == IF variant = "direct" THEN DirectTools ELSE NatsTools

\* a child process of the call has failed: non-zero exit, or no spawn
Failed(p) == p.status \in {"exit1", "error"}

\* C19: every tool call that ends, whatever the tool name, the arguments and the
\* outcome of its child processes, ends in a structured response: a text result, or
\* a response with isError set whose text starts with "Error: "; an unknown tool
\* name gets the error response "Error: Unknown tool: <name>", and a failed nats
\* command (publish, request, agent operation) gets the error response.
C19_StructuredResponse ==
    pc = "done" =>
        /\ response.isError \in BOOLEAN
        /\ Len(response.text) >= 1
        /\ \A k \in DOMAIN response.text : response.text[k] \in Seq(STRING)
        /\ response.isError => IsPrefix(<<"Error: ">>, response.text[1])
        /\ req.name \notin Tools =>
              response = [isError |-> TRUE,
                          text |-> <<<<"Error: ", "Unknown tool: ", req.name>>>>]
        /\ (variant = "bus" /\ subs = <<>> /\ \E i \in DOMAIN procs : Failed(procs[i])) =>
              response.isError

\* a call of the bus server has returned the error response after its nats command
\* exited with a non-zero code
C19_Witness ==
    /\ pc = "done" /\ variant = "bus" /\ Len(procs) = 1
    /\ procs[1].status = "exit1"
    /\ response.isError /\ Head(response.text[1]) = "Error: "

----------------------------------------------------------------------------
(* C20 *)

\* the arguments fail the tool's schema: a required field is missing, a string
\* field holds a number, or a broadcast's priority is none of low, normal, high
Malformed(r) ==
    /\ r.name \in Tools
    /\ \/ \E f \in (IF variant = "direct" THEN Required(r.name) ELSE NatsRequired(r.name)) :
             f \notin DOMAIN r.arguments
       \/ \E f \in DOMAIN r.arguments :
             /\ f \in {"name", "description", "agent_id", "message", "to", "subject", "status"}
             /\ r.arguments[f] # <<>> /\ Head(r.arguments[f]) = "<number>"
       \/ /\ r.name \in {"agent_broadcast", "nats_agent_broadcast"}
          /\ "priority" \in DOMAIN r.arguments
          /\ r.arguments.priority \notin {<<"low">>, <<"normal">>, <<"high">>}

\* C20: a tool call whose arguments fail validation is never partially executed: it
\* spawns no process, publishes nothing, delivers nothing, reads no presence, and
\* returns the error response at once.
C20_ValidationAtomic ==
    [][(pc = "idle" /\ pc' # "idle" /\ Malformed(req')) =>
          /\ pc' = "done"
          /\ response'.isError /\ IsPrefix(<<"Error: ">>, response'.text[1])
          /\ procs' = <<>> /\ subs' = <<>>
          /\ agents' = <<>> /\ targets' = <<>> /\ results' = <<>>]_vars

\* a bus broadcast with priority "urgent" was refused without a publish
C20_Witness ==
    /\ pc = "done" /\ req.name = "nats_agent_broadcast"
    /\ "priority" \in DOMAIN req.arguments /\ req.arguments.priority = <<"urgent">>
    /\ response.isError /\ procs = <<>>

----------------------------------------------------------------------------
(* Claims C21 .. C30 *)

\* the files discovery has to list: well-formed, and within the threshold unless
\* stale agents were asked for
ListedSlots == {s \in Slots : ValidAt(s) /\ (IncludeStale \/ AgeAt(s) <= staleThreshold)}

MalformedAt(s) == files[s] # NoFile /\ ~files[s][1].data.valid

\* C21: a tracking file that cannot be read or parsed never hides the others:
\* discover does not fail, and it returns exactly the records of the well-formed
\* files (the non-stale ones unless stale agents are asked for), one line each.
C21_MalformedSkipped ==
    (variant = "direct" /\ pc = "done" /\ req.name = "agent_discover" /\ Parses(req)) =>
        /\ ~response.isError
        /\ Len(agents) = Cardinality(ListedSlots)
        /\ \A s \in ListedSlots : Lists(response.text, NameAt(s), IdAt(s))
        /\ IF ListedSlots = {} THEN response.text = NoAgentsText
           ELSE Len(response.text) = 1 + Cardinality(ListedSlots)

C21_Witness ==
    /\ DiscoverDone
    /\ MalformedAt(1)
    /\ Cardinality(ListedSlots) = 2
    /\ Len(response.text) = 3

\* part occurs in whole, as consecutive text
Occurs(part, whole) ==
    \E k \in 0 .. (Len(whole) - Len(part)) : SubSeq(whole, k + 1, k + Len(part)) = part

\* the text of a message received on agents.broadcast whose sender is id, up to the
\* sender field
BroadcastFrom(id) ==
    <<"[#1] Received on \"", "agents.broadcast", "\"", "\n", "{">>
        \o JsonFields(<< <<"from", JsonStr(id)>> >>)

\* the result of the call returns a broadcast published by id
ReturnsBroadcastFrom(id) == \E l \in Range(response.text) : Occurs(BroadcastFrom(id), l)

\* C22 (as claimed): in the bus variant a broadcast sent by agent S is delivered to
\* all agents except S: a check_messages(S) that listens while S's broadcast is
\* published never returns that broadcast.
C22_BroadcastExcludesSender ==
    (CheckDone /\ ~response.isError) => ~ReturnsBroadcastFrom(req.arguments.agent_id)

\* C22 (amended): in the bus variant the sender is not excluded: a broadcast by S is
\* published on agents.broadcast, and a check_messages, that of S included, whose
\* broadcast subscriber received it and which ends without error returns it in its
\* [Broadcasts] section.
C22_BroadcastReachesSender ==
    (CheckDone /\ ~response.isError /\ Occurs(BroadcastFrom(BobbyId), subs[2].stdout)) =>
        \E k \in TitleLines(response.text, "[Broadcasts]") :
            /\ k < Len(response.text)
            /\ Occurs(BroadcastFrom(BobbyId), response.text[k + 1])

\* check_messages of bobby-aaaa1111 returned the broadcast bobby-aaaa1111 sent
C22_Witness ==
    /\ CheckDone /\ ~response.isError
    /\ req.arguments.agent_id = BobbyId
    /\ ReturnsBroadcastFrom(BobbyId)

\* an agent operation of the bus server has returned its confirmation
AgentOpDone ==
    variant = "bus" /\ pc = "done" /\ req.name \in PublishingTools /\ ~response.isError

\* the agent id an agent operation acts for: the one register has generated, else
\* the caller's
ActingId == IF req.name = "nats_agent_register" THEN agentId ELSE req.arguments.agent_id

\* the subject the protocol gives the operation
ProtocolSubject ==
    CASE req.name = "nats_agent_register" -> <<"agents.register">>
      [] req.name = "nats_agent_deregister" -> <<"agents.deregister">>
      [] req.name = "nats_agent_heartbeat" -> <<"agents.heartbeat.">> \o req.arguments.agent_id
      [] req.name = "nats_agent_broadcast" -> <<"agents.broadcast">>
      [] OTHER -> <<"agents.dm.">> \o req.arguments.to

\* C23: in the bus variant each successful agent operation publishes exactly one
\* envelope on exactly one subject: register on agents.register, deregister on
\* agents.deregister, heartbeat(id) on agents.heartbeat.<id>, broadcast on
\* agents.broadcast, a DM to T on agents.dm.<T>; the envelope's first field (from
\* for broadcast and DM, id for the others) is the acting agent's id, and a DM
\* envelope's to field is T.
C23_OneEnvelope ==
    AgentOpDone =>
        /\ Len(procs) = 1
        /\ procs[1].cmd = "nats"
        /\ Len(procs[1].argv) = 5
        /\ procs[1].argv[3] = Str("publish")
        /\ procs[1].argv[4] = ProtocolSubject
        /\ LET field == IF req.name \in {"nats_agent_broadcast", "nats_agent_dm"}
                        THEN "from" ELSE "id" IN
             IsPrefix(<<"{">> \o JsonFields(<< <<field, JsonStr(ActingId)>> >>),
                      procs[1].argv[5])
        /\ req.name = "nats_agent_dm" =>
             Occurs(JsonFields(<< <<"to", JsonStr(req.arguments.to)>> >>), procs[1].argv[5])

\* a DM to alice-bbbb2222 was published and confirmed
C23_Witness ==
    /\ AgentOpDone /\ req.name = "nats_agent_dm"
    /\ procs[1].status = "exit0"
    /\ procs[1].argv[4] = <<"agents.dm.">> \o AliceId

\* a registration has returned its response
RegisterDone ==
    pc = "done" /\ req.name \in {"agent_register", "nats_agent_register"} /\ ~response.isError

LowerHex == {HexDigits[i] : i \in DOMAIN HexDigits}

\* the text after the name and "-" in the returned id
SuffixOf(id, name) == SubSeq(id, Len(name) + 2, Len(id))

\* C24: for every name, the id register returns is the name, then "-", then 8
\* lowercase hexadecimal characters, and in the bus variant the agent_id of the
\* registration response is the id the published registration envelope announces.
C24_IdFormat ==
    RegisterDone =>
        LET id == AgentIdOf(response.text)
            name == req.arguments.name IN
          /\ response.text = RegisteredText(id)
          /\ IsPrefix(name \o <<"-">>, id)
          /\ Len(SuffixOf(id, name)) = 8
          /\ \A k \in DOMAIN SuffixOf(id, name) : SuffixOf(id, name)[k] \in LowerHex
          /\ variant = "bus" =>
               IsPrefix(<<"{">> \o JsonFields(<< <<"id", JsonStr(id)>> >>), procs[1].argv[5])

\* a registration on the bus returned an id whose random part starts with a byte
\* below 16
C24_Witness ==
    /\ RegisterDone /\ variant = "bus"
    /\ req.arguments.name = ReviewerName
    /\ SuffixOf(AgentIdOf(response.text), ReviewerName)[1] = "0"

GroupAt(s) == files[s][1].data.group

\* the agent whose record is a is in group g, by its tracking file
InGroup(a, g) == \E s \in Slots : ValidAt(s) /\ IdAt(s) = a.id /\ GroupAt(s) = g

\* C25 (as claimed): a broadcast given a group G attempts delivery only to agents,
\* other than the sender, whose group is G; a broadcast given no group attempts
\* delivery to the usable agents of every group.
C25_GroupScoping ==
    [][Begins("agent_broadcast") =>
          IF "group" \in DOMAIN req'.arguments
          THEN \A k \in DOMAIN targets' : InGroup(targets'[k], req'.arguments.group)
          ELSE \A s \in OtherSlots(req'.arguments.agent_id) :
                  \E k \in DOMAIN targets' : targets'[k].id = IdAt(s)]_vars

\* an agent operation of the bus server has returned, whatever the outcome
AgentOpReturned ==
    variant = "bus" /\ pc = "done" /\ req.name \in PublishingTools /\ NatsParses(req)

\* C26: in the bus variant an agent operation reports success only if its publish
\* succeeded: when the publish process exits non-zero or fails to spawn, register,
\* deregister, broadcast, DM and heartbeat return the error response instead of
\* their confirmation text, and register returns no agent_id.
C26_SuccessNeedsPublish ==
    AgentOpReturned =>
        /\ ~response.isError => (Len(procs) = 1 /\ procs[1].status = "exit0")
        /\ (\E i \in DOMAIN procs : Failed(procs[i])) =>
              /\ response.isError
              /\ IsPrefix(<<"Error: ">>, response.text[1])
              /\ response.text # Confirmation(req, agentId)
              /\ req.name = "nats_agent_register" => ~Occurs(agentId, response.text[1])

\* a registration whose publish exited non-zero was answered with the error response
C26_Witness ==
    /\ AgentOpReturned /\ req.name = "nats_agent_register"
    /\ procs[1].status = "exit1" /\ agentId # <<>>
    /\ response.isError

\* subscription i exists before and after the step: the step is within one call
Lives(i) == i \in DOMAIN subs /\ i \in DOMAIN subs'

\* the step handles the close event of subscription i
Closes(i) == ~subs[i].closed /\ subs'[i].closed

\* the step handles the error event of subscription i
Errors(i) == procs[i].status = "running" /\ procs'[i].status = "error"

\* C27: each subscribe settles exactly once under every interleaving of its
\* process's close event, its error event and its timer: the first of the three
\* decides the result and later ones do not change it; once the process has closed
\* or errored the timer is cancelled and the process is never killed afterwards;
\* and whenever the subscribe settled by timeout the process has been killed.
C27_SettlesOnce ==
    [][\A i \in 1 .. 2 : Lives(i) =>
          /\ subs[i].outcome # Pending => subs'[i].outcome = subs[i].outcome
          /\ (subs[i].outcome = Pending /\ subs'[i].outcome # Pending) =>
                \/ /\ Closes(i) /\ ~Errors(i) /\ ~Fires(i)
                   /\ subs'[i].outcome =
                        Resolved(OrElse(Trim(subs[i].stdout), NoMessagesText))
                \/ /\ Errors(i) /\ ~Closes(i) /\ ~Fires(i)
                   /\ ~subs'[i].outcome[1].ok
                \/ /\ Fires(i) /\ ~Closes(i) /\ ~Errors(i)
                   /\ subs'[i].outcome =
                        Resolved(OrElse(subs[i].stdout, NoMessagesReceivedText))
          /\ (Closes(i) \/ Errors(i) \/ Fires(i)) => subs'[i].outcome # Pending
          /\ (subs[i].closed \/ procs[i].status = "error") =>
                /\ subs[i].timer # "armed"
                /\ ~Fires(i)
                /\ procs'[i].status = procs[i].status
          /\ subs'[i].timer = "fired" => procs'[i].status = "killed"
          /\ subs'[i].timer = "cleared" => procs'[i].status # "killed"]_vars

\* a subscription settled by its timer, and the killed process has closed since
C27_Witness ==
    \E i \in DOMAIN subs :
        /\ subs[i].timer = "fired" /\ subs[i].closed
        /\ procs[i].status = "killed"
        /\ subs[i].outcome = Resolved(NoMessagesReceivedText)

\* a subscriber process has exited with a non-zero code
ExitedNonZero(i) == procs[i].status = "exit1"

\* a subscribing call has returned
SubscribeDone == pc = "done" /\ req.name \in SubscribingTools /\ subs # <<>>

\* C28: a subscribe whose subscriber process exits with a non-zero code does not
\* report a failure: it resolves with the accumulated text or "No messages";
\* nats_subscribe returns that text as a normal result, check_messages returns "No
\* messages" when both subscriber processes exit that way without output, and a
\* subscribing call fails only when a subscriber process could not be spawned.
C28_ExitCodeIgnored ==
    SubscribeDone =>
        /\ \A i \in DOMAIN subs : ExitedNonZero(i) =>
              subs[i].outcome = Resolved(OrElse(Trim(subs[i].stdout), NoMessagesText))
        /\ (req.name = "nats_subscribe" /\ ExitedNonZero(1)) =>
              response = Result(<<OrElse(Trim(subs[1].stdout), NoMessagesText)>>)
        /\ (req.name = "nats_agent_check_messages" /\ ExitedNonZero(1) /\ ExitedNonZero(2)
                /\ subs[1].stdout = <<>> /\ subs[2].stdout = <<>>) =>
              response = Result(<<NoMessagesText>>)
        /\ response.isError <=> \E i \in DOMAIN procs : procs[i].status = "error"

\* check_messages returned "No messages" after both subscriber processes exited with
\* a non-zero code
C28_Witness ==
    /\ SubscribeDone /\ req.name = "nats_agent_check_messages"
    /\ ExitedNonZero(1) /\ ExitedNonZero(2)
    /\ response = Result(<<NoMessagesText>>)

\* the agent ids direct messages are addressed to on the bus
Addressees == {r.arguments.to : r \in {q \in PeerRequests : q.name = "nats_agent_dm"}}

\* the heading of a message received on the DM subject of agent id
DMTo(id) == <<"[#1] Received on \"", "agents.dm.">> \o id \o <<"\"">>

\* the result of the call returns a direct message addressed to id
ReturnsDMTo(id) == \E l \in Range(response.text) : Occurs(DMTo(id), l)

C29_DMIsolationPlainIds ==
    (CheckDone /\ req.arguments.agent_id = BobbyId) =>
        /\ ~ReturnsDMTo(AliceId)
        /\ GotText(1) => Occurs(DMTo(BobbyId), subs[1].stdout)

\* the delivery processes of the call that have not ended
InFlight(ps) == {i \in DOMAIN ps : ps[i].status = "running"}

\* the slot whose tracking file holds the agent id
SlotsOf(id) == {s \in Slots : ValidAt(s) /\ IdAt(s) = id}

\* C30: a broadcast fixes its target set from one presence read at its start and
\* delivers to the targets one at a time: the targets are the usable agents other
\* than the sender at the start and never change while it runs, whatever happens to
\* the tracking files; the i-th delivery goes to the i-th target; at most one
\* delivery process is in flight at any moment; and the broadcast ends only when
\* every target has been attempted.
C30_TargetsFixedAtStart ==
    [][/\ Begins("agent_broadcast") =>
            /\ Len(targets') = Cardinality(OtherSlots(req'.arguments.agent_id))
            /\ \A s \in OtherSlots(req'.arguments.agent_id) :
                  \E k \in DOMAIN targets' : targets'[k].id = IdAt(s)
            /\ Cardinality(InFlight(procs')) <= 1
       /\ (req.name = "agent_broadcast" /\ pc = "await") =>
            /\ targets' = targets
            /\ Len(procs') <= Len(targets)
            /\ \A i \in DOMAIN procs' : procs'[i].argv[2] = targets[i].tmux_pane
            /\ Cardinality(InFlight(procs')) <= 1
            /\ Len(procs') >= Len(procs)
            /\ pc' = "done" <=> (Len(procs') = Len(targets) /\ InFlight(procs') = {})]_vars

\* a broadcast has attempted both of its targets although the tracking file of one
\* of them was removed while it ran
C30_Witness ==
    /\ pc = "done" /\ req.name = "agent_broadcast"
    /\ Len(targets) = 2 /\ Len(procs) = 2
    /\ \E k \in DOMAIN targets : SlotsOf(targets[k].id) = {}

\* a broadcast has returned without a delivery to an agent whose tracking file
\* appeared while it ran
C30_WitnessAppeared ==
    /\ pc = "done" /\ req.name = "agent_broadcast" /\ procs # <<>>
    /\ \E s \in OtherSlots(req.arguments.agent_id) :
          \A k \in DOMAIN targets : targets[k].id # IdAt(s)

====
